---- MODULE Spec2Model ----
(***************************************************************************)
(* A model of the CityScope ingestion code: discovery (fetchers/fetch.py), *)
(* extraction (parsers/parser.py), enrichment (summarizer.py), persistence *)
(* (services/database.py and the top-level database.py) and the            *)
(* orchestrator (orchestrator.py).                                         *)
(*                                                                         *)
(* Python values are modelled as follows.  A dict is a function whose      *)
(* DOMAIN is its set of keys; a list is a sequence; None where a dict or a *)
(* record is expected is the empty function <<>>; text is a sequence of    *)
(* one-character strings; a datetime is a day ordinal, None being NoDate.  *)
(* A table row is a function from its non-NULL columns to their values.    *)
(***************************************************************************)
EXTENDS Integers, Sequences, FiniteSets, TLC

(***************************************************************************)
(* Bounds of the model.                                                    *)
(***************************************************************************)
MaxId == 3
MaxStoreId == 2
MaxStoreDate == 1
MaxDate == 2
MaxBatch == 2
MaxLinks == 2
MaxDocs == 3
MaxLimit == 3
MaxFound == 2
MaxRunId == 2
MaxRunLinks == 2

Ids == 1..MaxId

\* the document ids the persistence specifications write, and the meeting
\* dates their metadata carries
StoreIds == 1..MaxStoreId
StoreDates == 1..MaxStoreDate

\* meeting_date is None
NoDate == 0
Dates == 1..MaxDate

\* Sequences over S of length at most n
SeqUpTo(S, n) == UNION {[1..k -> S] : k \in 0..n}

(***************************************************************************)
(* Python helpers.                                                         *)
(***************************************************************************)
None == <<>>

\* dict.get(key, default)
Get(d, k, default) == IF k \in DOMAIN d THEN d[k] ELSE default

\* Python truthiness of a str, list or dict (or None): non-empty.
Truthy(v) == v # <<>>

Min(a, b) == IF a <= b THEN a ELSE b

\* seq[:n] for n >= 0
Take(s, n) == SubSeq(s, 1, Min(n, Len(s)))

Range(s) == {s[i] : i \in DOMAIN s}

(***************************************************************************)
(* The store: the Supabase table meeting_summaries, a list of rows.        *)
(***************************************************************************)
VARIABLES
    dbmodule,       \* which database module the process imported
    store,          \* the rows of meeting_summaries
    last_write,     \* the row sent by the last upsert that succeeded
                    \* (None before the first)
    last_hit,       \* whether that upsert found a row with its document_id
    pc,             \* position of the running call
    summaries,      \* argument of saveMultipleSummaries
    full_documents, \* argument of saveMultipleSummaries
    idx,            \* loop index, 1-based position of the next item
    success_count,  \* saveMultipleSummaries' counter
    attempts,       \* upserts sent by the running saveMultipleSummaries call
    returned        \* value returned by the last completed call

(***************************************************************************)
(* Discovery (fetchers/fetch.py).                                          *)
(***************************************************************************)
VARIABLES
    page,           \* scrapeMultiplePages: 1-based index of the next page
    all_documents,  \* scrapeMultiplePages: the documents merged so far
    page_log,       \* per page loaded: how the load ended and how many
                    \* documents it added
    limit,          \* getRecentDocuments: its limit argument
    recent          \* getRecentDocuments: the ids it returned

(***************************************************************************)
(* Extraction (parsers/parser.py).                                         *)
(***************************************************************************)
VARIABLES
    document_ids,     \* the list of ids the caller passes
    max_docs,         \* parseMultiplePdfs: its max_docs argument (0: None)
    parse_ids,        \* parseMultiplePdfs: document_ids after the max_docs cut
    parsed_documents, \* parseMultiplePdfs: the successes
    failed_documents, \* parseMultiplePdfs: the failed ids
    visited           \* the ids parsePdfFromDocumentId was called for, with
                      \* the outcome of each call

(***************************************************************************)
(* Enrichment (summarizer.py).                                             *)
(***************************************************************************)
VARIABLES
    documents,        \* summarizeMultipleDocuments: its documents argument
    failed_summaries, \* summarizeMultipleDocuments: the failed results
    accepted,         \* the model responses behind the entries of summaries
    events            \* model calls and sleeps, in the order they happened

(***************************************************************************)
(* The orchestrator (orchestrator.py).                                     *)
(***************************************************************************)
VARIABLES
    caller,              \* who called runCompletePipeline
    max_documents,       \* runCompletePipeline: its max_documents argument
                         \* (0: None)
    summarize,           \* runCompletePipeline: its summarize argument
    save_to_db,          \* runCompletePipeline: its save_to_db argument
    llm_ready_documents, \* runCompletePipeline: the prepared documents
    report,              \* the counts runCompletePipeline has printed
    pipeline_result,     \* runCompletePipeline: what it returned, once it has
    caller_outcome       \* how the caller fared with the returned value

(***************************************************************************)
(* Cleaning (parsers/parser.py) and the read API (server.py).              *)
(***************************************************************************)
VARIABLES
    dirty,          \* a text cleanText is applied to
    cleaned,        \* cleanText(dirty)
    cleaned_again,  \* cleanText(cleaned)
    request_id,     \* GET /summaries/<id>: the id asked for (0: no request)
    read_ok,        \* GET /summaries/<id>: whether the store could be read
    http_response,  \* GET /summaries/<id>: the answer
    exists_call     \* the last checkIfDocumentExists call: its argument,
                    \* whether the store could be read, what it returned

(***************************************************************************)
(* Two pipeline runs in two processes, writing to the one table.           *)
(***************************************************************************)
VARIABLES
    runs,           \* per run: the arguments of its saveMultipleSummaries
                    \* call, its loop index and its counter
    writes          \* the upserts the store has executed: the run and the
                    \* row it sent

storeVars == <<dbmodule, store, last_write, last_hit>>
saveVars == <<summaries, full_documents, success_count, attempts, returned>>
discVars == <<page, all_documents, page_log, limit, recent>>
parseVars == <<document_ids, max_docs, parse_ids, parsed_documents,
               failed_documents, visited>>
sumVars == <<documents, failed_summaries, accepted, events>>

orchVars == <<caller, max_documents, summarize, save_to_db,
              llm_ready_documents, report, pipeline_result, caller_outcome>>
cleanVars == <<dirty, cleaned, cleaned_again>>
serverVars == <<request_id, read_ok, http_response, exists_call>>
concVars == <<runs, writes>>
otherVars == <<orchVars, cleanVars, serverVars, concVars>>

vars == <<pc, idx, storeVars, saveVars, discVars, parseVars, sumVars,
          orchVars, cleanVars, serverVars, concVars>>

OriginalUrl(document_id) ==
    "https://pub-london.escribemeetings.com/FileStream.ashx?DocumentId="
        \o ToString(document_id)

\* datetime.strftime('%Y-%m-%d') of day ordinal d of January 2024
Strftime(d) == "2024-01-" \o (IF d < 10 THEN "0" ELSE "") \o ToString(d)

\* The row sent by services/database.py: raw_text and meeting_title are
\* added only when a full document (with metadata) is given.
DbRecordServices(summary_data, full_document) ==
    LET base == [document_id |-> summary_data.document_id,
                 filename |-> summary_data.filename,
                 summary |-> summary_data.summary,
                 original_url |-> OriginalUrl(summary_data.document_id)]
        withText == IF Truthy(full_document)
                    THEN base @@ [raw_text |-> Get(full_document, "text", <<>>)]
                    ELSE base
    IN  IF Truthy(full_document) /\ Truthy(Get(full_document, "metadata", None))
        THEN withText @@
             [meeting_title |-> Get(full_document.metadata, "title", "")]
        ELSE withText

\* The row sent by the top-level database.py: no raw_text, meeting_title
\* always, meeting_date only when the metadata carries one.
DbRecordRoot(summary_data, document_metadata) ==
    LET base == [document_id |-> summary_data.document_id,
                 summary |-> summary_data.summary,
                 original_url |-> OriginalUrl(summary_data.document_id)]
        fallback == Get(summary_data, "filename", "Unknown Meeting")
    IN  IF Truthy(document_metadata)
        THEN LET titled == base @@
                   [meeting_title |->
                        Get(document_metadata, "meeting_title", fallback)]
             IN  IF Get(document_metadata, "meeting_date", 0) # 0
                 THEN titled @@
                      [meeting_date |-> Strftime(document_metadata.meeting_date)]
                 ELSE titled
        ELSE base @@ [meeting_title |-> fallback]

DbRecord(module, summary_data, doc) ==
    IF module = "services" THEN DbRecordServices(summary_data, doc)
    ELSE DbRecordRoot(summary_data, doc)

RowsOf(table, document_id) ==
    {i \in DOMAIN table : table[i].document_id = document_id}

\* A plain insert: what the upsert would be without its conflict key.
InsertAlways(table, db_record) == Append(table, db_record)

\* table.upsert(db_record, on_conflict='document_id'): a row with the key is
\* updated in the columns the payload names and keeps its other columns; a
\* new key inserts the payload, the columns it does not name staying NULL.
Upsert(table, db_record) ==
    IF RowsOf(table, db_record.document_id) = {}
    THEN Append(table, db_record)
    ELSE [i \in DOMAIN table |->
            IF table[i].document_id = db_record.document_id
            THEN db_record @@ table[i]
            ELSE table[i]]

(***************************************************************************)
(* Inputs of the persistence calls.                                        *)
(***************************************************************************)
Filenames == {"minutes.pdf"}
SummaryTexts == {<<"x">>, <<"y">>}
Titles == {"Council"}

\* what summarizeDocument hands on, as far as the database modules read it
SummaryRecords ==
    [document_id : StoreIds, filename : Filenames, summary : SummaryTexts]

\* a parsed document (services module) or a metadata dict (top-level module)
\* for document_id
DocsFor(module, document_id) ==
    IF module = "services"
    THEN [document_id : {document_id}, filename : Filenames, text : {<<"t">>},
          metadata : {None} \cup [title : Titles]]
    ELSE {[document_id |-> document_id] @@ t @@ d :
            t \in {<<>>} \cup [meeting_title : Titles],
            d \in {<<>>} \cup [meeting_date : StoreDates]}

\* one summary with the document passed for it, if any
BatchItems(module) ==
    UNION {[summary : {s}, doc : SeqUpTo(DocsFor(module, s.document_id), 1)] :
            s \in SummaryRecords}

Flatten(ss) ==
    LET F[i \in 0..Len(ss)] == IF i = 0 THEN <<>> ELSE F[i - 1] \o ss[i]
    IN  F[Len(ss)]

(***************************************************************************)
(* saveSummaryToDatabase and saveMultipleSummaries.                        *)
(***************************************************************************)
\* doc_lookup = {doc['document_id']: doc for doc in full_documents}, then
\* doc_lookup.get(doc_id): the last document with the id, or None.
DocLookup(docs, doc_id) ==
    LET hits == {i \in DOMAIN docs : docs[i].document_id = doc_id}
    IN  IF hits = {} THEN None
        ELSE docs[CHOOSE i \in hits : \A j \in hits : j <= i]

\* saveSummaryToDatabase: the table after the call; a store failure raises
\* inside the try block and leaves the table as it was.
saveSummaryToDatabase(module, table, summary_data, doc, ok) ==
    IF ok THEN Upsert(table, DbRecord(module, summary_data, doc)) ELSE table

\* the caller passes the lists and the loop starts
CallSaveMultipleSummaries ==
    /\ pc = "idle"
    /\ \E items \in SeqUpTo(BatchItems(dbmodule), MaxBatch) :
          /\ summaries' = [i \in DOMAIN items |-> items[i].summary]
          /\ full_documents' = Flatten([i \in DOMAIN items |-> items[i].doc])
    /\ idx' = 1
    /\ success_count' = 0
    /\ attempts' = <<>>
    /\ pc' = "save"
    /\ UNCHANGED otherVars
    /\ UNCHANGED <<storeVars, returned, discVars, parseVars, sumVars>>

\* the loop as it would be if a failed write ended it
SaveStepStopsOnFailure ==
    /\ pc = "save"
    /\ idx <= Len(summaries)
    /\ \E ok \in BOOLEAN :
          LET summary == summaries[idx]
              full_doc == DocLookup(full_documents, summary.document_id)
              id == summary.document_id
          IN  /\ store' = saveSummaryToDatabase(dbmodule, store, summary,
                                                full_doc, ok)
              /\ success_count' = IF ok THEN success_count + 1
                                  ELSE success_count
              /\ attempts' = Append(attempts, [document_id |-> id, ok |-> ok])
              /\ last_write' =
                    IF ok THEN DbRecord(dbmodule, summary, full_doc)
                    ELSE last_write
              /\ last_hit' = IF ok THEN RowsOf(store, id) # {} ELSE last_hit
              /\ idx' = IF ok THEN idx + 1 ELSE Len(summaries) + 1
    /\ UNCHANGED otherVars
    /\ UNCHANGED <<dbmodule, pc, summaries, full_documents, returned, discVars,
                   parseVars, sumVars>>

\* one iteration of the loop over summaries: the upsert either succeeds (the
\* result object is truthy) or raises inside saveSummaryToDatabase, which
\* then returns None
SaveStep ==
    /\ pc = "save"
    /\ idx <= Len(summaries)
    /\ \E ok \in BOOLEAN :
          LET summary == summaries[idx]
              full_doc == DocLookup(full_documents, summary.document_id)
              id == summary.document_id
          IN  /\ store' = saveSummaryToDatabase(dbmodule, store, summary,
                                                full_doc, ok)
              /\ success_count' = IF ok THEN success_count + 1
                                  ELSE success_count
              /\ attempts' = Append(attempts, [document_id |-> id, ok |-> ok])
              /\ last_write' =
                    IF ok THEN DbRecord(dbmodule, summary, full_doc)
                    ELSE last_write
              /\ last_hit' = IF ok THEN RowsOf(store, id) # {} ELSE last_hit
    /\ idx' = idx + 1
    /\ UNCHANGED otherVars
    /\ UNCHANGED <<dbmodule, pc, summaries, full_documents, returned, discVars,
                   parseVars, sumVars>>

SaveReturn ==
    /\ pc = "save"
    /\ idx > Len(summaries)
    /\ returned' = success_count
    /\ pc' = "saved"
    /\ UNCHANGED otherVars
    /\ UNCHANGED <<storeVars, summaries, full_documents, idx, success_count,
                   attempts, discVars, parseVars, sumVars>>

InitStore ==
    /\ dbmodule \in {"services", "root"}
    /\ store = <<>>
    /\ last_write = None
    /\ last_hit = FALSE
    /\ pc = "idle"
    /\ summaries = <<>>
    /\ full_documents = <<>>
    /\ idx = 1
    /\ success_count = 0
    /\ attempts = <<>>
    /\ returned = 0

\* discovery has not run
InitDiscoveryIdle ==
    /\ page = 1
    /\ all_documents = <<>>
    /\ page_log = <<>>
    /\ limit = 0
    /\ recent = <<>>

\* extraction has not run
InitParseIdle ==
    /\ document_ids = <<>>
    /\ max_docs = 0
    /\ parse_ids = <<>>
    /\ parsed_documents = <<>>
    /\ failed_documents = <<>>
    /\ visited = <<>>

\* enrichment has not run
InitSummarizeIdle ==
    /\ documents = <<>>
    /\ failed_summaries = <<>>
    /\ accepted = <<>>
    /\ events = <<>>

\* runCompletePipeline has not been called
InitPipelineIdle ==
    /\ caller = "none"
    /\ max_documents = 0
    /\ summarize = TRUE
    /\ save_to_db = TRUE
    /\ llm_ready_documents = <<>>
    /\ report = None
    /\ pipeline_result = <<>>
    /\ caller_outcome = "none"

\* no text is being cleaned
InitCleanIdle ==
    /\ dirty = <<>>
    /\ cleaned = <<>>
    /\ cleaned_again = <<>>

\* no request is being served
InitServerIdle ==
    /\ request_id = 0
    /\ read_ok = TRUE
    /\ http_response = None
    /\ exists_call = None

\* no second process is running
InitConcurrentIdle ==
    /\ runs = <<>>
    /\ writes = {}

InitOthersIdle ==
    InitPipelineIdle /\ InitCleanIdle /\ InitServerIdle /\ InitConcurrentIdle

\* a direct call of saveSummaryToDatabase(summary_data, doc): the upsert
\* goes through, or the store fails, whatever document was passed
CallSaveSummaryToDatabase ==
    /\ pc = "idle"
    /\ \E summary_data \in SummaryRecords :
          \/ \E doc \in {None} \cup
                         DocsFor(dbmodule, summary_data.document_id) :
                /\ store' = saveSummaryToDatabase(dbmodule, store,
                                                  summary_data, doc, TRUE)
                /\ last_write' = DbRecord(dbmodule, summary_data, doc)
                /\ last_hit' = (RowsOf(store, summary_data.document_id) # {})
          \/ /\ store' = saveSummaryToDatabase(dbmodule, store,
                                                summary_data, None, FALSE)
             /\ UNCHANGED <<last_write, last_hit>>
    /\ UNCHANGED otherVars
    /\ UNCHANGED <<dbmodule, pc, idx, saveVars, discVars, parseVars, sumVars>>

\* Persistence on its own: any sequence of saveSummaryToDatabase calls.
NextStore == CallSaveSummaryToDatabase

InitStoreSpec ==
    /\ InitStore
    /\ InitDiscoveryIdle
    /\ InitParseIdle
    /\ InitSummarizeIdle
    /\ InitOthersIdle

SpecStore == InitStoreSpec /\ [][NextStore]_vars

\* One saveMultipleSummaries call on a fresh table, in the module the
\* orchestrator imports.
InitBatchSpec == InitStoreSpec /\ dbmodule = "services"

NextBatch == CallSaveMultipleSummaries \/ SaveStep \/ SaveReturn

SpecBatch == InitBatchSpec /\ [][NextBatch]_vars

(***************************************************************************)
(* Discovery: extractDocumentsWithMetadata, scrapeMultiplePages and        *)
(* getRecentDocuments.  A document is the dict built for a link, of which  *)
(* the code reads document_id and meeting_date (link_text and meeting_info *)
(* are only printed).                                                      *)
(***************************************************************************)
\* len(pages) in scrapeMultiplePages
NumPages == 2

Documents == [document_id : Ids, meeting_date : {NoDate} \cup Dates]

\* What a page load can do: the browser fails to start (setupDriver is
\* called outside the try block, so this raises), the load fails (caught,
\* nothing was found yet), the scan of the links fails (caught, links being
\* the documents found before the error), or the scan finds the links of the
\* page in order.
PageOutcomesOver(docs, n) ==
    [error : {"driver", "load"}, links : {<<>>}]
        \cup [error : {"scan", "none"}, links : SeqUpTo(docs, n)]

PageOutcomes == PageOutcomesOver(Documents, MaxLinks)

\* the list extractDocumentsWithMetadata returns: one entry per matching
\* link, in page order, with no check for an id seen before; after an error
\* the entries appended before it
extractDocumentsWithMetadata(outcome) ==
    IF outcome.error = "load" THEN <<>> ELSE outcome.links

IdsOf(docs) == {docs[i].document_id : i \in DOMAIN docs}

IdList(docs) == [i \in DOMAIN docs |-> docs[i].document_id]

\* seq with x put behind the elements whose key is >= key[x]: one step of a
\* stable sort into descending order (key maps an element to its sort key)
InsertDescending(sorted, x, key) ==
    LET n == Cardinality({i \in DOMAIN sorted : key[sorted[i]] >= key[x]})
    IN  SubSeq(sorted, 1, n) \o <<x>> \o SubSeq(sorted, n + 1, Len(sorted))

\* sorted(seq, key=key, reverse=True): descending, equal keys keeping their
\* original order
SortedReverse(seq, key) ==
    LET F[i \in 0..Len(seq)] ==
            IF i = 0 THEN <<>> ELSE InsertDescending(F[i - 1], seq[i], key)
    IN  F[Len(seq)]

HasDate(doc) == doc.meeting_date # NoDate
HasNoDate(doc) == doc.meeting_date = NoDate
\* lambda x: x['meeting_date']
MeetingDate == [doc \in Documents |-> doc.meeting_date]
\* lambda x: int(x['document_id'])
IntId == [doc \in Documents |-> doc.document_id]

\* getRecentDocuments as it would be with the two sorted lists swapped
getRecentDocumentsUndatedFirst(docs, lim) ==
    LET with_dates_sorted ==
            SortedReverse(SelectSeq(docs, HasDate), MeetingDate)
        without_dates_sorted ==
            SortedReverse(SelectSeq(docs, HasNoDate), IntId)
    IN  IdList(Take(without_dates_sorted \o with_dates_sorted, lim))

getRecentDocuments(docs, lim) ==
    LET with_dates == SelectSeq(docs, HasDate)
        without_dates == SelectSeq(docs, HasNoDate)
        with_dates_sorted == SortedReverse(with_dates, MeetingDate)
        without_dates_sorted == SortedReverse(without_dates, IntId)
        all_sorted == with_dates_sorted \o without_dates_sorted
        recent_docs == Take(all_sorted, lim)
    IN  IdList(recent_docs)

\* one iteration of the loop over pages, the page behaving as one of
\* outcomes
ScrapePageFrom(outcomes) ==
    /\ pc = "scrape"
    /\ page <= NumPages
    /\ \E outcome \in outcomes :
          IF outcome.error = "driver"
          THEN /\ pc' = "raised"
               /\ page_log' = Append(page_log, [error |-> outcome.error,
                                                added |-> 0])
               /\ UNCHANGED <<page, all_documents>>
          ELSE LET docs == extractDocumentsWithMetadata(outcome)
                   existing_ids == IdsOf(all_documents)
                   IsNew(doc) == doc.document_id \notin existing_ids
                   new_docs == SelectSeq(docs, IsNew)
               IN  /\ all_documents' = all_documents \o new_docs
                   /\ page_log' = Append(page_log,
                                         [error |-> outcome.error,
                                          added |-> Len(new_docs)])
                   /\ page' = page + 1
                   /\ pc' = pc
    /\ UNCHANGED otherVars
    /\ UNCHANGED <<idx, storeVars, saveVars, limit, recent, parseVars, sumVars>>

ScrapePage == ScrapePageFrom(PageOutcomes)

ScrapeReturn ==
    /\ pc = "scrape"
    /\ page > NumPages
    /\ pc' = "scraped"
    /\ UNCHANGED otherVars
    /\ UNCHANGED <<idx, storeVars, saveVars, discVars, parseVars, sumVars>>

\* getRecentDocuments(all_documents, limit=lim)
CallGetRecentDocuments ==
    /\ pc = "scraped"
    /\ \E lim \in 0..MaxLimit :
          /\ limit' = lim
          /\ recent' = getRecentDocuments(all_documents, lim)
    /\ pc' = "recent"
    /\ UNCHANGED otherVars
    /\ UNCHANGED <<idx, storeVars, saveVars, page, all_documents, page_log,
                   parseVars, sumVars>>

\* scrapeMultiplePages has been called
InitDiscovery ==
    /\ pc = "scrape"
    /\ page = 1
    /\ all_documents = <<>>
    /\ page_log = <<>>
    /\ limit = 0
    /\ recent = <<>>

\* the rest of the program is idle
InitStoreIdle ==
    /\ dbmodule = "services"
    /\ store = <<>>
    /\ last_write = None
    /\ last_hit = FALSE
    /\ summaries = <<>>
    /\ full_documents = <<>>
    /\ idx = 1
    /\ success_count = 0
    /\ attempts = <<>>
    /\ returned = 0

\* Discovery as fetch.py runs it: scrape the pages, then take the recent ids.
NextDiscovery == ScrapePage \/ ScrapeReturn \/ CallGetRecentDocuments

InitDiscoverySpec ==
    /\ InitDiscovery
    /\ InitStoreIdle
    /\ InitParseIdle
    /\ InitSummarizeIdle
    /\ InitOthersIdle

SpecDiscovery == InitDiscoverySpec /\ [][NextDiscovery]_vars

\* getRecentDocuments on any list of documents.
InitRecent ==
    /\ pc = "scraped"
    /\ page = NumPages + 1
    /\ all_documents \in SeqUpTo(Documents, MaxDocs)
    /\ page_log = <<>>
    /\ limit = 0
    /\ recent = <<>>

InitRecentSpec ==
    /\ InitRecent
    /\ InitStoreIdle
    /\ InitParseIdle
    /\ InitSummarizeIdle
    /\ InitOthersIdle

NextRecent == CallGetRecentDocuments

SpecRecent == InitRecentSpec /\ [][NextRecent]_vars

(***************************************************************************)
(* Extraction: fetchPdfFromUrl, extractTextFromPdfBytes,                   *)
(* extractMetadataFromPdfBytes, getFilenameFromResponse,                   *)
(* parsePdfFromDocumentId and parseMultiplePdfs.                           *)
(***************************************************************************)
Whitespace == {" ", "\n"}

\* '\n\n'.join(pages)
JoinPages(pages) ==
    LET F[i \in 0..Len(pages)] ==
            IF i = 0 THEN <<>>
            ELSE IF i = 1 THEN pages[1]
            ELSE F[i - 1] \o <<"\n", "\n">> \o pages[i]
    IN  F[Len(pages)]

\* len(text.split()): the number of maximal runs of non-whitespace
WordCount(text) ==
    Cardinality({i \in DOMAIN text :
                    /\ text[i] \notin Whitespace
                    /\ i = 1 \/ text[i - 1] \in Whitespace})

\* The body of a 200 answer of the file-stream endpoint: no bytes at all,
\* bytes PyMuPDF cannot open, or a PDF with its pages' text and its metadata
\* (None when reading the metadata fails).
PdfBodies ==
    [empty : {TRUE}, opens : {FALSE}, pages : {<<>>}, metadata : {None}]
        \cup [empty : {FALSE}, opens : {FALSE}, pages : {<<>>},
              metadata : {None}]
        \cup [empty : {FALSE}, opens : {TRUE},
              pages : {<< <<>> >>, << <<"x">>, <<"y">> >>},
              metadata : {None} \cup [title : {"Council"}]]

NoBody == [empty |-> TRUE, opens |-> FALSE, pages |-> <<>>, metadata |-> None]

\* What the portal does for one document: the GET raises (timeout, network),
\* or answers with a status and a body; the HEAD request for the filename
\* raises, answers without a filename, or names the file.
Downloads ==
    [raises : {TRUE}, status : {0}, body : {NoBody}, head : {"raises"}]
        \cup [raises : {FALSE}, status : {404}, body : {NoBody},
              head : {"raises"}]
        \cup [raises : {FALSE}, status : {200}, body : PdfBodies,
              head : {"raises", "", "minutes.pdf"}]

\* fetchPdfFromUrl: the body, or None
fetchPdfFromUrl(download) ==
    IF ~download.raises /\ download.status = 200 THEN download.body ELSE None

\* extractTextFromPdfBytes: the joined page texts, or None
extractTextFromPdfBytes(pdf_bytes) ==
    IF pdf_bytes.opens THEN JoinPages(pdf_bytes.pages) ELSE None

\* extractMetadataFromPdfBytes: the metadata dict, or None
extractMetadataFromPdfBytes(pdf_bytes) ==
    IF pdf_bytes.opens THEN pdf_bytes.metadata ELSE None

\* getFilenameFromResponse: the name of the content-disposition header, or
\* doc_<id>.pdf
getFilenameFromResponse(document_id, download) ==
    IF download.head \notin {"raises", ""} THEN download.head
    ELSE "doc_" \o ToString(document_id) \o ".pdf"

\* parsePdfFromDocumentId: the parsed document, or None
parsePdfFromDocumentId(document_id, download) ==
    LET pdf_bytes == fetchPdfFromUrl(download)
    IN  IF pdf_bytes = None \/ pdf_bytes.empty THEN None
        ELSE LET text == extractTextFromPdfBytes(pdf_bytes)
             IN  IF ~Truthy(text) THEN None
                 ELSE [document_id |-> document_id,
                       filename |-> getFilenameFromResponse(document_id,
                                                            download),
                       text |-> text,
                       text_length |-> Len(text),
                       metadata |-> extractMetadataFromPdfBytes(pdf_bytes),
                       word_count |-> WordCount(text)]

\* document_ids[:max_docs] when max_docs is given (0 stands for None, and is
\* as falsy)
CutToMaxDocs(ids, max) == IF max # 0 THEN Take(ids, max) ELSE ids

\* parseMultiplePdfs(document_ids, max_docs=max) is called
CallParseMultiplePdfs ==
    /\ pc = "idle"
    /\ \E max \in 0..MaxDocs :
          /\ max_docs' = max
          /\ parse_ids' = CutToMaxDocs(document_ids, max)
    /\ parsed_documents' = <<>>
    /\ failed_documents' = <<>>
    /\ visited' = <<>>
    /\ idx' = 1
    /\ pc' = "parse"
    /\ UNCHANGED otherVars
    /\ UNCHANGED <<storeVars, saveVars, discVars, document_ids, sumVars>>

\* the loop as it would be if a failed document ended it
ParseStepStopsOnFailure ==
    /\ pc = "parse"
    /\ idx <= Len(parse_ids)
    /\ \E download \in Downloads :
          LET doc_id == parse_ids[idx]
              result == parsePdfFromDocumentId(doc_id, download)
          IN  /\ visited' = Append(visited, [document_id |-> doc_id,
                                              ok |-> Truthy(result)])
              /\ IF Truthy(result)
                 THEN /\ parsed_documents' = Append(parsed_documents, result)
                      /\ failed_documents' = failed_documents
                      /\ idx' = idx + 1
                 ELSE /\ failed_documents' = Append(failed_documents, doc_id)
                      /\ parsed_documents' = parsed_documents
                      /\ idx' = Len(parse_ids) + 1
    /\ UNCHANGED otherVars
    /\ UNCHANGED <<pc, storeVars, saveVars, discVars, document_ids, max_docs,
                   parse_ids, sumVars>>

\* one iteration of the loop over document_ids, the portal behaving as one
\* of downloads
ParseStepFrom(downloads) ==
    /\ pc = "parse"
    /\ idx <= Len(parse_ids)
    /\ \E download \in downloads :
          LET doc_id == parse_ids[idx]
              result == parsePdfFromDocumentId(doc_id, download)
          IN  /\ visited' = Append(visited, [document_id |-> doc_id,
                                              ok |-> Truthy(result)])
              /\ IF Truthy(result)
                 THEN /\ parsed_documents' = Append(parsed_documents, result)
                      /\ failed_documents' = failed_documents
                 ELSE /\ failed_documents' = Append(failed_documents, doc_id)
                      /\ parsed_documents' = parsed_documents
    /\ idx' = idx + 1
    /\ UNCHANGED otherVars
    /\ UNCHANGED <<pc, storeVars, saveVars, discVars, document_ids, max_docs,
                   parse_ids, sumVars>>

ParseStep == ParseStepFrom(Downloads)

ParseReturn ==
    /\ pc = "parse"
    /\ idx > Len(parse_ids)
    /\ pc' = "parsed"
    /\ UNCHANGED otherVars
    /\ UNCHANGED <<idx, storeVars, saveVars, discVars, parseVars, sumVars>>

\* parseMultiplePdfs on any list of ids.
InitParse ==
    /\ document_ids \in SeqUpTo(Ids, MaxDocs)
    /\ max_docs = 0
    /\ parse_ids = <<>>
    /\ parsed_documents = <<>>
    /\ failed_documents = <<>>
    /\ visited = <<>>

InitParseSpec ==
    /\ InitStoreIdle
    /\ pc = "idle"
    /\ InitDiscoveryIdle
    /\ InitParse
    /\ InitSummarizeIdle
    /\ InitOthersIdle

NextParse == CallParseMultiplePdfs \/ ParseStep \/ ParseReturn

SpecParse == InitParseSpec /\ [][NextParse]_vars

(***************************************************************************)
(* Enrichment: summarizeDocument and summarizeMultipleDocuments.           *)
(***************************************************************************)
\* str.strip()
Strip(text) ==
    LET solid == {i \in DOMAIN text : text[i] \notin Whitespace}
        first == CHOOSE i \in solid : \A j \in solid : i <= j
        last == CHOOSE i \in solid : \A j \in solid : j <= i
    IN  IF solid = {} THEN <<>> ELSE SubSeq(text, first, last)

\* a / b cut off behind the first decimal, in tenths
TruncateToTenths(a, b) == (10 * a) \div b

\* round(a / b, 1) in tenths, for b > 0: to the nearest tenth, a tie going
\* to the even tenth (the ties of lengths this small are exact in binary)
RoundToTenths(a, b) ==
    LET q == (10 * a) \div b
        r == (10 * a) % b
    IN  IF 2 * r > b THEN q + 1
        ELSE IF 2 * r < b THEN q
        ELSE IF q % 2 = 0 THEN q ELSE q + 1

\* What the model answers: the call raises, or returns text; json is what a
\* JSON parser makes of that text (None when it is no JSON object), which
\* summarizeDocument never looks at.
NotJson == None
JsonObjects ==
    {[meeting_title |-> "", meeting_date |-> "2024-01-01"],
     [meeting_title |-> "Council", meeting_date |-> "null"],
     [meeting_title |-> "Council", meeting_date |-> "2024-01-01"]}

ModelResponses ==
    [raises : {TRUE}, text : {<<>>}, json : {NotJson}]
        \cup [raises : {FALSE},
              text : {<<>>, <<" ", "x", " ">>, <<"x", " ", "y">>},
              json : {NotJson}]
        \cup [raises : {FALSE}, text : {<<"{", "}">>}, json : JsonObjects]

\* summarizeDocument: the result dict for the model's response
summarizeDocument(document_text, filename, document_id, response) ==
    IF response.raises
    THEN [document_id |-> document_id, filename |-> filename,
          summary |-> None, error |-> "error"]
    ELSE LET summary == Strip(response.text)
         IN  [document_id |-> document_id,
              filename |-> filename,
              summary |-> summary,
              original_length |-> Len(document_text),
              summary_length |-> Len(summary),
              compression_ratio |->
                  IF Len(summary) > 0
                  THEN RoundToTenths(Len(document_text), Len(summary))
                  ELSE 0]

Call(document_id) == <<"call", document_id>>
Sleep == <<"sleep", 0>>

\* the rate limit as it would be if it slept after the last call too
RateLimitAfterEveryCall(i, n) == <<Sleep>>

\* if idx < len(documents): time.sleep(delay)
RateLimit(i, n) == IF i < n THEN <<Sleep>> ELSE <<>>

\* one iteration of the loop over documents: one model call, answered by
\* one of responses, then the sleep
SummarizeStepFrom(responses) ==
    /\ pc = "summarize"
    /\ idx <= Len(documents)
    /\ \E response \in responses :
          LET doc == documents[idx]
              result == summarizeDocument(doc.text, doc.filename,
                                          doc.document_id, response)
          IN  IF Truthy(Get(result, "summary", None))
              THEN /\ summaries' = Append(summaries, result)
                   /\ accepted' = Append(accepted, response)
                   /\ failed_summaries' = failed_summaries
              ELSE /\ failed_summaries' = Append(failed_summaries, result)
                   /\ UNCHANGED <<summaries, accepted>>
    /\ events' = events \o <<Call(documents[idx].document_id)>>
                        \o RateLimit(idx, Len(documents))
    /\ idx' = idx + 1
    /\ UNCHANGED otherVars
    /\ UNCHANGED <<pc, storeVars, full_documents, success_count, attempts,
                   returned, discVars, parseVars, documents>>

SummarizeStep == SummarizeStepFrom(ModelResponses)

SummarizeReturn ==
    /\ pc = "summarize"
    /\ idx > Len(documents)
    /\ pc' = "summarized"
    /\ UNCHANGED otherVars
    /\ UNCHANGED <<idx, storeVars, saveVars, discVars, parseVars, sumVars>>

\* the documents prepareTextForLLM hands to the summarizer
LlmDocuments ==
    [document_id : Ids, filename : Filenames, text : {<<"x", "y">>},
     metadata : {None}]

\* summarizeMultipleDocuments on any list of documents.
InitSummarizeSpec ==
    /\ InitStoreIdle
    /\ pc = "summarize"
    /\ InitDiscoveryIdle
    /\ InitParseIdle
    /\ documents \in SeqUpTo(LlmDocuments, MaxDocs)
    /\ failed_summaries = <<>>
    /\ accepted = <<>>
    /\ events = <<>>
    /\ InitOthersIdle

NextSummarize == SummarizeStep \/ SummarizeReturn

SpecSummarize == InitSummarizeSpec /\ [][NextSummarize]_vars

(***************************************************************************)
(* Cleaning: cleanText and prepareTextForLLM.                              *)
(***************************************************************************)
MaxPieces == 4

\* the characters \d matches
Digits == {"0", "1", "2", "3", "4", "5", "6", "7", "8", "9"}

\* the literal parts of the pattern Page \d+ of \d+
PagePrefix == <<"P", "a", "g", "e", " ">>
OfInfix == <<" ", "o", "f", " ">>

\* the entries of text at the positions in keep, in order
Pick(text, keep) ==
    LET F[i \in 0..Len(text)] ==
            IF i = 0 THEN <<>>
            ELSE IF i \in keep THEN Append(F[i - 1], text[i]) ELSE F[i - 1]
    IN  F[Len(text)]

\* re.sub(r'\n{3,}', '\n\n', text): of a run of three or more newlines the
\* first two stay
CollapseNewlines(text) ==
    Pick(text, {i \in DOMAIN text :
                  ~(/\ i > 2
                    /\ text[i] = "\n"
                    /\ text[i - 1] = "\n"
                    /\ text[i - 2] = "\n")})

\* re.sub(r' {2,}', ' ', text): of a run of spaces the first stays
CollapseSpaces(text) ==
    Pick(text, {i \in DOMAIN text :
                  ~(i > 1 /\ text[i] = " " /\ text[i - 1] = " ")})

\* pat occurs in text at position i
StartsWith(text, i, pat) ==
    /\ i + Len(pat) - 1 <= Len(text)
    /\ \A k \in DOMAIN pat : text[i + k - 1] = pat[k]

\* the position of the last digit of the run of digits that starts at i
\* (i - 1 when there is no digit at i): what a greedy \d+ takes
DigitsEnd(text, i) ==
    LET stops == {j \in i..(Len(text) + 1) :
                    j = Len(text) + 1 \/ text[j] \notin Digits}
    IN  (CHOOSE j \in stops : \A k \in stops : j <= k) - 1

\* the position where a match of Page \d+ of \d+ that starts at i ends, or 0
FooterEnd(text, i) ==
    IF ~StartsWith(text, i, PagePrefix) THEN 0
    ELSE LET d1 == DigitsEnd(text, i + Len(PagePrefix))
         IN  IF d1 < i + Len(PagePrefix) \/ ~StartsWith(text, d1 + 1, OfInfix)
             THEN 0
             ELSE LET d2 == DigitsEnd(text, d1 + 1 + Len(OfInfix))
                  IN  IF d2 < d1 + 1 + Len(OfInfix) THEN 0 ELSE d2

\* re.sub(r'Page \d+ of \d+', '', text): the matches found from left to
\* right, each search starting behind the previous match, are left out
RemoveFooters(text) ==
    LET R[i \in 1..(Len(text) + 1)] ==
            IF i > Len(text) THEN <<>>
            ELSE IF FooterEnd(text, i) # 0 THEN R[FooterEnd(text, i) + 1]
            ELSE <<text[i]>> \o R[i + 1]
    IN  R[1]

cleanText(text) ==
    IF ~Truthy(text) THEN <<>>
    ELSE Strip(RemoveFooters(CollapseSpaces(CollapseNewlines(text))))

\* prepareTextForLLM(parsed_document) with max_chars left None
prepareTextForLLM(parsed_document) ==
    [document_id |-> parsed_document.document_id,
     filename |-> parsed_document.filename,
     text |-> cleanText(parsed_document.text),
     metadata |-> parsed_document.metadata]

\* the pieces the texts to clean are put together from: whitespace, a
\* letter, and the two halves of a footer
Pieces ==
    {<<" ">>, <<"\n">>, <<"x">>, PagePrefix \o <<"1">>, OfInfix \o <<"2">>}

DirtyTexts == {Flatten(ps) : ps \in SeqUpTo(Pieces, MaxPieces)}

\* cleanText(dirty)
CleanOnce ==
    /\ pc = "idle"
    /\ cleaned' = cleanText(dirty)
    /\ pc' = "cleaned"
    /\ UNCHANGED <<idx, storeVars, saveVars, discVars, parseVars, sumVars,
                   orchVars, dirty, cleaned_again, serverVars, concVars>>

\* cleanText(cleanText(dirty))
CleanAgain ==
    /\ pc = "cleaned"
    /\ cleaned_again' = cleanText(cleaned)
    /\ pc' = "cleaned again"
    /\ UNCHANGED <<idx, storeVars, saveVars, discVars, parseVars, sumVars,
                   orchVars, dirty, cleaned, serverVars, concVars>>

\* cleanText on any text put together from the pieces.
InitCleanSpec ==
    /\ InitStoreIdle
    /\ pc = "idle"
    /\ InitDiscoveryIdle
    /\ InitParseIdle
    /\ InitSummarizeIdle
    /\ InitPipelineIdle
    /\ InitServerIdle
    /\ InitConcurrentIdle
    /\ dirty \in DirtyTexts
    /\ cleaned = <<>>
    /\ cleaned_again = <<>>

NextClean == CleanOnce \/ CleanAgain

SpecClean == InitCleanSpec /\ [][NextClean]_vars

(***************************************************************************)
(* The orchestrator: runCompletePipeline, quickTest and the command line.  *)
(* save_to_file only writes files the program never reads back; it is left *)
(* out.                                                                    *)
(***************************************************************************)
\* the slice taken when max_documents is None or 0
DefaultMaxDocuments == 30

\* quickTest(num_docs=3)
QuickTestDocs == 3

\* all_documents[:max_documents] if max_documents else all_documents[:30]
RecentDocs(docs, max) ==
    IF max # 0 THEN Take(docs, max) ELSE Take(docs, DefaultMaxDocuments)

\* the check as it would be if it answered from the table whether or not
\* the read went through
checkIfDocumentExistsIgnoringFailure(table, document_id, ok) ==
    RowsOf(table, document_id) # {}

\* checkIfDocumentExists(document_id): a row with the id was read back; a
\* failed read is answered False
checkIfDocumentExists(table, document_id, ok) ==
    IF ok THEN RowsOf(table, document_id) # {} ELSE FALSE

\* The arguments a caller passes: any for a direct call; quickTest passes
\* max_documents=num_docs and summarize=True; the command line (--all or
\* --max) passes its flags and leaves save_to_db at its default.
PipelineArgs(who) ==
    IF who = "quickTest"
    THEN {[max_documents |-> QuickTestDocs, summarize |-> TRUE,
           save_to_db |-> TRUE]}
    ELSE IF who = "main"
    THEN [max_documents : 0..MaxFound, summarize : BOOLEAN,
          save_to_db : {TRUE}]
    ELSE [max_documents : 0..MaxFound, summarize : BOOLEAN,
          save_to_db : BOOLEAN]

\* runCompletePipeline is called and calls scrapeMultiplePages
CallRunCompletePipeline ==
    /\ pc = "idle"
    /\ \E who \in {"direct", "quickTest", "main"} :
       \E args \in PipelineArgs(who) :
          /\ caller' = who
          /\ max_documents' = args.max_documents
          /\ summarize' = args.summarize
          /\ save_to_db' = args.save_to_db
    /\ page' = 1
    /\ all_documents' = <<>>
    /\ page_log' = <<>>
    /\ pc' = "scrape"
    /\ UNCHANGED <<idx, storeVars, saveVars, limit, recent, parseVars,
                   sumVars, llm_ready_documents, report, pipeline_result,
                   caller_outcome, cleanVars, serverVars, concVars>>

\* scrapeMultiplePages has returned: leave with [] if it found nothing, else
\* sort the list in place by int(document_id), newest first, slice it, and
\* call parseMultiplePdfs(document_ids, max_docs=None)
SelectRecentDocs ==
    /\ pc = "scraped"
    /\ IF all_documents = <<>>
       THEN /\ pipeline_result' = <<>>
            /\ pc' = "returned"
            /\ UNCHANGED <<all_documents, parseVars>>
       ELSE LET sorted == SortedReverse(all_documents, IntId)
                recent_docs == RecentDocs(sorted, max_documents)
            IN  /\ all_documents' = sorted
                /\ document_ids' = IdList(recent_docs)
                /\ max_docs' = 0
                /\ parse_ids' = CutToMaxDocs(IdList(recent_docs), 0)
                /\ parsed_documents' = <<>>
                /\ failed_documents' = <<>>
                /\ visited' = <<>>
                /\ pipeline_result' = pipeline_result
                /\ pc' = "parse"
    /\ idx' = 1
    /\ UNCHANGED <<storeVars, saveVars, page, page_log, limit, recent, sumVars,
                   caller,
                   max_documents, summarize, save_to_db, llm_ready_documents,
                   report, caller_outcome, cleanVars, serverVars, concVars>>

\* the loop over parsed_documents as it would be if it put each prepared
\* document in front of the list
PrepareAllPrepending(parsed) ==
    [i \in DOMAIN parsed |-> prepareTextForLLM(parsed[Len(parsed) + 1 - i])]

\* for doc in parsed_documents: llm_ready_documents.append(
\* prepareTextForLLM(doc))
PrepareAll(parsed) ==
    [i \in DOMAIN parsed |-> prepareTextForLLM(parsed[i])]

\* parseMultiplePdfs has returned: leave with [] if nothing was parsed, else
\* prepare the documents and, if summarize is set, call
\* summarizeMultipleDocuments(llm_ready_documents)
AfterParse ==
    /\ pc = "parsed"
    /\ IF parsed_documents = <<>>
       THEN /\ pipeline_result' = <<>>
            /\ pc' = "returned"
            /\ UNCHANGED <<idx, llm_ready_documents, summaries, sumVars>>
       ELSE LET llm == PrepareAll(parsed_documents)
            IN  /\ llm_ready_documents' = llm
                /\ pipeline_result' = pipeline_result
                /\ summaries' = <<>>
                /\ IF summarize /\ llm # <<>>
                   THEN /\ documents' = llm
                        /\ failed_summaries' = <<>>
                        /\ accepted' = <<>>
                        /\ events' = <<>>
                        /\ idx' = 1
                        /\ pc' = "summarize"
                   ELSE /\ pc' = "summarized"
                        /\ UNCHANGED <<idx, sumVars>>
    /\ UNCHANGED <<storeVars, full_documents, success_count, attempts,
                   returned, discVars, parseVars, caller, max_documents,
                   summarize, save_to_db, report, caller_outcome, cleanVars,
                   serverVars, concVars>>

\* the counts of the final summary, and the count printed after saving when
\* the summaries were saved
FinalReport(saved) ==
    [found |-> Len(all_documents),
     processed |-> Len(parsed_documents),
     failed |-> Len(failed_documents),
     ready |-> Len(llm_ready_documents)]
        @@ (IF summarize THEN [summaries |-> Len(summaries)] ELSE <<>>)
        @@ (IF saved THEN [saved |-> returned] ELSE <<>>)

\* the test before the save as it would be if it left the toggle out
ShouldSaveAnyway(flag, generated) == generated # <<>>

\* if save_to_db and summaries:
ShouldSave(flag, generated) == flag /\ generated # <<>>

\* the summaries are there (or were not asked for): call
\* saveMultipleSummaries(summaries, llm_ready_documents) if save_to_db is set
\* and there is a summary, else print the final summary and return
AfterSummarize ==
    /\ pc = "summarized"
    /\ IF ShouldSave(save_to_db, summaries)
       THEN /\ full_documents' = llm_ready_documents
            /\ idx' = 1
            /\ success_count' = 0
            /\ attempts' = <<>>
            /\ pc' = "save"
            /\ UNCHANGED <<report, pipeline_result>>
       ELSE /\ report' = FinalReport(FALSE)
            /\ pipeline_result' = <<llm_ready_documents, summaries>>
            /\ pc' = "returned"
            /\ UNCHANGED <<full_documents, idx, success_count, attempts>>
    /\ UNCHANGED <<storeVars, summaries, returned, discVars, parseVars,
                   sumVars, caller, max_documents, summarize, save_to_db,
                   llm_ready_documents, caller_outcome, cleanVars,
                   serverVars, concVars>>

\* saveMultipleSummaries has returned: print the final summary and return
AfterSave ==
    /\ pc = "saved"
    /\ report' = FinalReport(TRUE)
    /\ pipeline_result' = <<llm_ready_documents, summaries>>
    /\ pc' = "returned"
    /\ UNCHANGED <<idx, storeVars, saveVars, discVars, parseVars, sumVars,
                   caller, max_documents, summarize, save_to_db,
                   llm_ready_documents, caller_outcome, cleanVars,
                   serverVars, concVars>>

\* documents, summaries = value: a ValueError unless value has two entries
Unpack2(value) == IF Len(value) = 2 THEN "returned" ELSE "ValueError"

\* the caller receives the value: quickTest and the command line unpack it
\* into documents, summaries
CallerReceives ==
    /\ pc = "returned"
    /\ caller_outcome' = IF caller = "direct" THEN "returned"
                         ELSE Unpack2(pipeline_result)
    /\ pc' = "exit"
    /\ UNCHANGED <<idx, storeVars, saveVars, discVars, parseVars, sumVars,
                   caller, max_documents, summarize, save_to_db,
                   llm_ready_documents, report, pipeline_result, cleanVars,
                   serverVars, concVars>>

\* the exception of setupDriver leaves scrapeMultiplePages,
\* runCompletePipeline and its caller
PipelineRaises ==
    /\ pc = "raised"
    /\ caller_outcome' = "WebDriverException"
    /\ pc' = "exit"
    /\ UNCHANGED <<idx, storeVars, saveVars, discVars, parseVars, sumVars,
                   caller, max_documents, summarize, save_to_db,
                   llm_ready_documents, report, pipeline_result, cleanVars,
                   serverVars, concVars>>

\* The world of a pipeline run: few documents, undated or dated, at most
\* MaxRunLinks links on a page; a download fails or delivers one PDF; the
\* model call fails or answers one text.
RunIds == 1..MaxRunId
RunDocuments == [document_id : RunIds, meeting_date : {NoDate, MaxDate}]
RunPageOutcomes ==
    {o \in PageOutcomesOver(RunDocuments, MaxRunLinks) : o.error # "scan"}
RunDownloads ==
    {d \in Downloads :
        \/ d.raises
        \/ /\ d.status = 200
           /\ d.head = "minutes.pdf"
           /\ d.body.opens
           /\ d.body.metadata # None}
RunResponses ==
    {r \in ModelResponses : r.raises \/ r.text = <<" ", "x", " ">>}

RunScrapePage == ScrapePageFrom(RunPageOutcomes)
RunParseStep == ParseStepFrom(RunDownloads)
RunSummarizeStep == SummarizeStepFrom(RunResponses)

\* a table that holds a row from an earlier run, or none
StoredBefore ==
    {<<>>} \cup
    {<<DbRecordServices([document_id |-> i, filename |-> "minutes.pdf",
                         summary |-> <<"x">>], None)>> : i \in RunIds}

\* One run of the pipeline, from the call to the caller's use of the value.
InitPipelineSpec ==
    /\ pc = "idle"
    /\ dbmodule = "services"
    /\ store \in StoredBefore
    /\ last_write = None
    /\ last_hit = FALSE
    /\ summaries = <<>>
    /\ full_documents = <<>>
    /\ idx = 1
    /\ success_count = 0
    /\ attempts = <<>>
    /\ returned = 0
    /\ InitDiscoveryIdle
    /\ InitParseIdle
    /\ InitSummarizeIdle
    /\ InitOthersIdle

NextPipeline ==
    \/ CallRunCompletePipeline
    \/ RunScrapePage
    \/ ScrapeReturn
    \/ SelectRecentDocs
    \/ RunParseStep
    \/ ParseReturn
    \/ AfterParse
    \/ RunSummarizeStep
    \/ SummarizeReturn
    \/ AfterSummarize
    \/ SaveStep
    \/ SaveReturn
    \/ AfterSave
    \/ CallerReceives
    \/ PipelineRaises

SpecPipeline == InitPipelineSpec /\ [][NextPipeline]_vars

(***************************************************************************)
(* The read API: server.py get_summary over getSummaryByDocumentId.        *)
(***************************************************************************)
\* getSummaryByDocumentId: the first row read back for the id, None when
\* there is none and None when the read raises (the exception is caught)
getSummaryByDocumentId(table, document_id, ok) ==
    LET data == RowsOf(table, document_id)
    IN  IF ok /\ data # {}
        THEN table[CHOOSE i \in data : \A j \in data : i <= j]
        ELSE None

\* get_summary(document_id): the JSON envelope and the status; nothing it
\* calls raises, so its except branch (500) is never taken
get_summary(table, document_id, ok) ==
    LET summary == getSummaryByDocumentId(table, document_id, ok)
    IN  IF Truthy(summary)
        THEN [status |-> 200, success |-> TRUE, data |-> summary]
        ELSE [status |-> 404, success |-> FALSE,
              error |-> "Summary not found"]

\* the rows earlier runs can have written
ServedRows ==
    {DbRecordServices(sd, doc) :
        sd \in SummaryRecords,
        doc \in {None} \cup UNION {DocsFor("services", i) : i \in StoreIds}}

\* tables with at most one row for an id
ServedTables ==
    {t \in SeqUpTo(ServedRows, MaxStoreId) :
        \A i, j \in DOMAIN t : t[i].document_id = t[j].document_id => i = j}

\* GET /summaries/<id> is served, the store answering the read or failing
ServeGetSummary ==
    /\ pc = "idle"
    /\ \E id \in Ids, ok \in BOOLEAN :
          /\ request_id' = id
          /\ read_ok' = ok
          /\ http_response' = get_summary(store, id, ok)
    /\ UNCHANGED <<pc, idx, storeVars, saveVars, discVars, parseVars,
                   sumVars, orchVars, cleanVars, exists_call, concVars>>

\* checkIfDocumentExists(document_id) is called, the store answering the
\* read or failing
CallCheckIfDocumentExists ==
    /\ pc = "idle"
    /\ \E id \in Ids, ok \in BOOLEAN :
          exists_call' = [document_id |-> id,
                          ok |-> ok,
                          answer |-> checkIfDocumentExists(store, id, ok)]
    /\ UNCHANGED <<pc, idx, storeVars, saveVars, discVars, parseVars,
                   sumVars, orchVars, cleanVars, request_id, read_ok,
                   http_response, concVars>>

\* The read API over any table.
InitServerSpec ==
    /\ pc = "idle"
    /\ dbmodule = "services"
    /\ store \in ServedTables
    /\ last_write = None
    /\ last_hit = FALSE
    /\ summaries = <<>>
    /\ full_documents = <<>>
    /\ idx = 1
    /\ success_count = 0
    /\ attempts = <<>>
    /\ returned = 0
    /\ InitDiscoveryIdle
    /\ InitParseIdle
    /\ InitSummarizeIdle
    /\ InitOthersIdle

NextServer ==
    \/ ServeGetSummary
    \/ CallCheckIfDocumentExists

SpecServer == InitServerSpec /\ [][NextServer]_vars

(***************************************************************************)
(* Two runs of runCompletePipeline in two processes.  Each has reached its *)
(* saveMultipleSummaries call with the summaries and prepared documents it *)
(* made; the store executes one upsert at a time.                          *)
(***************************************************************************)
NumRuns == 2
Processes == 1..NumRuns

\* a summary and the prepared document it was made from: the orchestrator
\* passes llm_ready_documents, so every summary has its document
ProcessItems ==
    UNION {[summary : {s}, doc : DocsFor("services", s.document_id)] :
            s \in SummaryRecords}

\* a process that has not reached its saveMultipleSummaries call
IdleProcess ==
    [pc |-> "idle", summaries |-> <<>>, full_documents |-> <<>>, idx |-> 1,
     success_count |-> 0, returned |-> 0]

\* process r calls saveMultipleSummaries(summaries, llm_ready_documents)
ProcessCallsSave(r) ==
    /\ runs[r].pc = "idle"
    /\ \E items \in SeqUpTo(ProcessItems, MaxBatch) :
          runs' = [runs EXCEPT ![r] =
                      [pc |-> "save",
                       summaries |-> [i \in DOMAIN items |-> items[i].summary],
                       full_documents |-> [i \in DOMAIN items |-> items[i].doc],
                       idx |-> 1,
                       success_count |-> 0,
                       returned |-> 0]]
    /\ UNCHANGED <<pc, idx, storeVars, saveVars, discVars, parseVars, sumVars,
                   orchVars, cleanVars, serverVars, writes>>

\* one iteration of process r's loop over its summaries: its upsert is
\* executed by the store, or fails
ProcessSaveStep(r) ==
    /\ runs[r].pc = "save"
    /\ runs[r].idx <= Len(runs[r].summaries)
    /\ \E ok \in BOOLEAN :
          LET summary == runs[r].summaries[runs[r].idx]
              full_doc == DocLookup(runs[r].full_documents,
                                    summary.document_id)
          IN  /\ store' = saveSummaryToDatabase(dbmodule, store, summary,
                                                full_doc, ok)
              /\ writes' =
                    IF ok
                    THEN writes \cup
                         {[run |-> r,
                           db_record |-> DbRecord(dbmodule, summary, full_doc)]}
                    ELSE writes
              /\ runs' = [runs EXCEPT
                            ![r].idx = @ + 1,
                            ![r].success_count = IF ok THEN @ + 1 ELSE @]
    /\ UNCHANGED <<pc, idx, dbmodule, last_write, last_hit, saveVars,
                   discVars, parseVars, sumVars, orchVars, cleanVars,
                   serverVars>>

\* process r's saveMultipleSummaries returns its counter
ProcessSaveReturn(r) ==
    /\ runs[r].pc = "save"
    /\ runs[r].idx > Len(runs[r].summaries)
    /\ runs' = [runs EXCEPT ![r].pc = "saved",
                            ![r].returned = runs[r].success_count]
    /\ UNCHANGED <<pc, idx, storeVars, saveVars, discVars, parseVars, sumVars,
                   orchVars, cleanVars, serverVars, writes>>

ProcessesCallSave == \E r \in Processes : ProcessCallsSave(r)
ProcessesSaveStep == \E r \in Processes : ProcessSaveStep(r)
ProcessesSaveReturn == \E r \in Processes : ProcessSaveReturn(r)

\* Two processes and an empty table.
InitConcurrentSpec ==
    /\ InitStore
    /\ dbmodule = "services"
    /\ InitDiscoveryIdle
    /\ InitParseIdle
    /\ InitSummarizeIdle
    /\ InitPipelineIdle
    /\ InitCleanIdle
    /\ InitServerIdle
    /\ runs = [r \in Processes |-> IdleProcess]
    /\ writes = {}

NextConcurrent ==
    \/ ProcessesCallSave
    \/ ProcessesSaveStep
    \/ ProcessesSaveReturn

SpecConcurrent == InitConcurrentSpec /\ [][NextConcurrent]_vars

(***************************************************************************)
(* Properties of discovery.                                                *)
(***************************************************************************)
\* C3: the list scrapeMultiplePages returns holds every document id at most
\* once, whether an id is linked on two pages or twice on one page.
C3_CandidatesUnique ==
    pc = "scraped" =>
        \A i, j \in DOMAIN all_documents :
            all_documents[i].document_id = all_documents[j].document_id
                => i = j

\* order is a recency order of docs: an arrangement of all of them with
\* dated before undated, dated by descending date, undated by descending id
IsRecencyOrder(order, docs) ==
    /\ order \in Permutations(DOMAIN docs)
    /\ \A i, j \in DOMAIN docs :
          i < j =>
            LET a == docs[order[i]]
                b == docs[order[j]]
            IN  /\ HasNoDate(a) => HasNoDate(b)
                /\ HasDate(a) /\ HasDate(b) => a.meeting_date >= b.meeting_date
                /\ HasNoDate(a) /\ HasNoDate(b) => a.document_id >= b.document_id

\* C4: getRecentDocuments returns the ids of the first min(limit, n)
\* documents of a recency order of its argument.
C4_RecentIsPrefixOfRecencyOrder ==
    pc = "recent" =>
        /\ Len(recent) = Min(limit, Len(all_documents))
        /\ \E order \in Permutations(DOMAIN all_documents) :
              /\ IsRecencyOrder(order, all_documents)
              /\ \A i \in DOMAIN recent :
                    recent[i] = all_documents[order[i]].document_id

\* C4: the example of the specification, with ids 2, 3, 1 for "3", "9", "1":
\* an old dated document, an undated one with the highest id, and a newer
\* dated one with the lowest id come out as 1, 2, 3.
C4_Witness ==
    /\ pc = "recent"
    /\ all_documents = <<[document_id |-> 2, meeting_date |-> 1],
                          [document_id |-> 3, meeting_date |-> NoDate],
                          [document_id |-> 1, meeting_date |-> 2]>>
    /\ recent = <<1, 2, 3>>

\* C13: a page whose load failed in any way adds no candidate, and no
\* failure ends discovery: scrapeMultiplePages goes through every page and
\* returns.
C13_PageFailureIsolated ==
    /\ pc # "raised"
    /\ \A i \in DOMAIN page_log :
          page_log[i].error # "none" => page_log[i].added = 0
    /\ pc = "scraped" => Len(page_log) = NumPages

(***************************************************************************)
(* Properties of the orchestrator.                                         *)
(***************************************************************************)
\* the pipeline has chosen the ids it hands to extraction
Selected == document_ids # <<>>

\* the number of documents asked for
MaxNew == IF max_documents # 0 THEN max_documents ELSE DefaultMaxDocuments

\* C5: the ids runCompletePipeline hands to extraction are the first max_new
\* entries of a recency order of the discovered documents (dated by
\* descending date, then undated by descending id), so that a dated document
\* with a small id goes ahead of an undated one with a larger id.
C5_ExtractionGetsRecencyPrefix ==
    Selected =>
        /\ Len(document_ids) = Min(MaxNew, Len(all_documents))
        /\ \E order \in Permutations(DOMAIN all_documents) :
              /\ IsRecencyOrder(order, all_documents)
              /\ \A i \in DOMAIN document_ids :
                    document_ids[i] = all_documents[order[i]].document_id

\* C11: whenever runCompletePipeline returns, also after a stage that came
\* out empty, the value is the pair (documents, summaries) of a non-empty
\* run, and a caller that received a value (quickTest, the command line) did
\* not raise on it.
C11_EmptyRunCompletesNormally ==
    /\ pc = "returned" => Len(pipeline_result) = 2
    /\ (pc = "exit" /\ caller_outcome # "WebDriverException")
          => caller_outcome = "returned"

\* s can be had from t by leaving entries out: the entries of s are matched,
\* one after the other, with the next equal entry of t
IsSubSeq(s, t) ==
    LET F[i \in 0..Len(s)] ==
            IF i = 0 THEN 0
            ELSE LET next == {k \in (F[i - 1] + 1)..Len(t) : t[k] = s[i]}
                 IN  IF next = {} THEN Len(t) + 1
                     ELSE CHOOSE k \in next : \A j \in next : k <= j
    IN  F[Len(s)] <= Len(t)

\* the ids of the model calls made so far, in the order of the calls
CalledIds ==
    LET IsCall(e) == e[1] = "call"
        calls == SelectSeq(events, IsCall)
    IN  [i \in DOMAIN calls |-> calls[i][2]]

\* C16: in a pipeline run the selected ids keep their relative order in
\* every stage: downloads, prepared documents, model calls, summaries and
\* upserts each follow the order of the stage before, whatever failed in
\* between.
C16_OrderPreserved ==
    caller # "none" =>
        /\ IdList(visited) = Take(document_ids, Len(visited))
        /\ IsSubSeq(IdList(parsed_documents), document_ids)
        /\ llm_ready_documents # <<>>
              => IdList(llm_ready_documents) = IdList(parsed_documents)
        /\ CalledIds = Take(IdList(llm_ready_documents), Len(CalledIds))
        /\ IsSubSeq(IdList(summaries), IdList(llm_ready_documents))
        /\ IdList(attempts) = Take(IdList(summaries), Len(attempts))

\* C16: a run has returned in which a download failed, a model call failed
\* and two different ids were upserted.
C16_Witness ==
    /\ pc = "returned"
    /\ failed_documents # <<>>
    /\ failed_summaries # <<>>
    /\ Cardinality(IdsOf(attempts)) >= 2

\* the ids whose upsert succeeded
Upserted == {attempts[i].document_id : i \in {j \in DOMAIN attempts : attempts[j].ok}}

\* the ids of a list of ids
IdSet(ids) == {ids[i] : i \in DOMAIN ids}

\* the ids upserted are among those enriched, those among the ones extracted,
\* those among the ones selected
SubsetChain ==
    /\ Upserted \subseteq IdsOf(summaries)
    /\ IdsOf(summaries) \subseteq IdsOf(parsed_documents)
    /\ IdsOf(parsed_documents) \subseteq IdSet(document_ids)

\* C17: in a pipeline run an id whose download or parse failed is not
\* among the extracted ids and gets no model call, an id whose model call
\* failed is not among the enriched ids and gets no upsert, and upserted,
\* enriched, extracted and selected ids are each a subset of the next.
C17_FailedIdLeavesChain ==
    caller # "none" =>
        /\ SubsetChain
        /\ \A id \in IdSet(failed_documents) :
              /\ id \notin IdsOf(parsed_documents)
              /\ id \notin IdSet(CalledIds)
        /\ \A id \in IdsOf(failed_summaries) :
              /\ id \notin IdsOf(summaries)
              /\ id \notin IdsOf(attempts)

\* C17: the subset part alone.
C17_SubsetChainOnly == caller # "none" => SubsetChain

\* the stage a run is in: discovery 1, extraction 2, enrichment 3,
\* persistence 4, over 5
Stage ==
    CASE pc = "idle" -> 0
      [] pc \in {"scrape", "scraped"} -> 1
      [] pc \in {"parse", "parsed"} -> 2
      [] pc \in {"summarize", "summarized"} -> 3
      [] pc \in {"save", "saved"} -> 4
      [] OTHER -> 5

\* C18: a run that is over has returned from runCompletePipeline: no
\* exception of an external call has ended it.
C18_RunEndsInDone ==
    pc = "exit" => caller_outcome \in {"returned", "ValueError"}

\* C18: the stages a run does have follow each other in order, and none is
\* entered again.
C18_StagesInOrder == [][Stage' >= Stage]_vars

\* C18: the store is written in the persistence stage only, which begins
\* when summarizeMultipleDocuments has returned.
C18_WritesOnlyWhenEnriched ==
    [][store' # store => (pc = "save" /\ idx > 0 /\ events # <<>>)]_vars

\* the number of upserts that failed
FailedWrites == Cardinality({i \in DOMAIN attempts : ~attempts[i].ok})

\* C19: when a run that selected ids has returned there is a final report,
\* and its counts account for every selected id and every failure:
\* processed + failed is the number selected, the summaries and the failed
\* model calls add up to the documents that were ready, and the saved
\* summaries and the failed store writes add up to the summaries.
C19_ReportAccountsForAll ==
    (pc = "returned" /\ Selected) =>
        /\ report # None
        /\ report.processed + report.failed = Len(document_ids)
        /\ summarize =>
              report.summaries + Len(failed_summaries) = report.ready
        /\ attempts # <<>> =>
              /\ "saved" \in DOMAIN report
              /\ report.saved + FailedWrites = report.summaries
              /\ report.saved <= report.summaries

\* C20: in a run with summarize false no model call is made and the store
\* is not written; in a run with save_to_db false the store is not written,
\* whatever was enriched; and a run with either toggle off that returns has
\* gone through every portal page and has downloaded every selected id.
C20_TogglesConfineEffects ==
    [][/\ (caller' # "none" /\ ~summarize')
             => (events' = <<>> /\ attempts' = <<>> /\ store' = store)
       /\ (caller' # "none" /\ ~save_to_db')
             => (attempts' = <<>> /\ store' = store)
       /\ (pc' = "returned" /\ (~summarize' \/ ~save_to_db'))
             => /\ Len(page_log') = NumPages
                /\ all_documents' # <<>>
                      => /\ document_ids' # <<>>
                         /\ IdList(visited') = document_ids']_vars

\* C20: a run with save_to_db false has returned with a summary it made.
C20_Witness ==
    /\ pc = "returned"
    /\ ~save_to_db
    /\ summarize
    /\ summaries # <<>>

\* the ids of docs in the given order that exists answers False for
NewIdsIn(order, docs) ==
    LET ids == [i \in DOMAIN docs |-> docs[order[i]].document_id]
        IsNew(id) == ~checkIfDocumentExists(store, id, TRUE)
    IN  SelectSeq(ids, IsNew)

\* C6: the ids handed to extraction are the first max_new ids of a recency
\* order of the discovered documents that do not exist in the store, in scan
\* order; no id that exists in the store is handed on.
C6_ExtractionGetsFirstNewIds ==
    Selected =>
        \E order \in Permutations(DOMAIN all_documents) :
            /\ IsRecencyOrder(order, all_documents)
            /\ document_ids = Take(NewIdsIn(order, all_documents), MaxNew)

(***************************************************************************)
(* Properties of cleaning.                                                 *)
(***************************************************************************)
\* text holds a run of three newlines, a run of two spaces or a footer
HasNoise(text) ==
    \E i \in DOMAIN text :
        \/ StartsWith(text, i, <<"\n", "\n", "\n">>)
        \/ StartsWith(text, i, <<" ", " ">>)
        \/ FooterEnd(text, i) # 0

\* C12: cleaning a cleaned text changes nothing, and a cleaned text holds no
\* run of three or more newlines, no run of two or more spaces and no
\* 'Page N of M' footer, also where the removal of a footer joined the text
\* on its two sides.
C12_CleanTextIdempotent ==
    /\ pc \in {"cleaned", "cleaned again"} => ~HasNoise(cleaned)
    /\ pc = "cleaned again" => cleaned_again = cleaned

(***************************************************************************)
(* Properties of the read API.                                             *)
(***************************************************************************)
\* C14: GET /summaries/<id> answers 404 exactly when the store was read and
\* holds no row for the id, and 500 with an error message whenever the read
\* failed.
C14_StoreErrorIs500 ==
    request_id # 0 =>
        /\ (http_response.status = 404)
              <=> (read_ok /\ RowsOf(store, request_id) = {})
        /\ ~read_ok => /\ http_response.status = 500
                       /\ "error" \in DOMAIN http_response

(***************************************************************************)
(* Properties of extraction.                                               *)
(***************************************************************************)
\* the entries of seq at the positions where visited has outcome ok
VisitedWith(ok) ==
    LET Has(v) == v.ok = ok
    IN  IdList(SelectSeq(visited, Has))

\* C8 as claimed: parseMultiplePdfs visits every id of the list it is given
\* once and in order, the successes and the failed ids each keep that order,
\* and every visit ends in exactly one of the two lists.
C8_EveryIdVisited ==
    pc = "parsed" =>
        /\ IdList(visited) = document_ids
        /\ IdList(parsed_documents) = VisitedWith(TRUE)
        /\ failed_documents = VisitedWith(FALSE)

\* C8 as amended: the same of the list cut to its first max_docs ids when
\* max_docs is given.
C8_EveryIdOfTheCutListVisited ==
    /\ pc = "parse" => IdList(visited) = Take(parse_ids, idx - 1)
    /\ pc = "parsed" =>
          /\ IdList(visited) = CutToMaxDocs(document_ids, max_docs)
          /\ IdList(parsed_documents) = VisitedWith(TRUE)
          /\ failed_documents = VisitedWith(FALSE)
          /\ Len(parsed_documents) + Len(failed_documents) = Len(visited)

\* C8: the example of the specification: of three ids the second fails and
\* the first and the third succeed.
C8_Witness ==
    /\ pc = "parsed"
    /\ Len(document_ids) = 3
    /\ max_docs = 0
    /\ [i \in DOMAIN visited |-> visited[i].ok] = <<TRUE, FALSE, TRUE>>
    /\ IdList(parsed_documents) = <<document_ids[1], document_ids[3]>>
    /\ failed_documents = <<document_ids[2]>>

(***************************************************************************)
(* Properties of enrichment.                                               *)
(***************************************************************************)
\* the validation gate of the specification
PassesValidation(response) ==
    /\ ~response.raises
    /\ response.json # NotJson
    /\ response.json.meeting_title # ""
    /\ response.json.meeting_date \notin {"null", ""}

\* C7: every entry of the success list comes from a response that parses as
\* JSON with a non-empty meeting_title and a meeting_date, and carries that
\* title and date.
C7_OnlyValidatedResponsesAccepted ==
    /\ \A i \in DOMAIN accepted : PassesValidation(accepted[i])
    /\ \A i \in DOMAIN summaries :
          /\ Get(summaries[i], "meeting_title", "") # ""
          /\ Get(summaries[i], "meeting_date", "") # ""

\* C9: when summarizeMultipleDocuments returns, the model was called once
\* for every document, in list order, with one sleep between every two
\* consecutive calls and none after the last.
C9_OneSleepBetweenCalls ==
    /\ \A i \in DOMAIN events :
          (i < Len(events) /\ events[i][1] = "call") => events[i + 1] = Sleep
    /\ pc = "summarized" =>
          LET n == Len(documents)
          IN  /\ Len(events) = IF n = 0 THEN 0 ELSE 2 * n - 1
              /\ \A k \in 1..n :
                    events[2 * k - 1] = Call(documents[k].document_id)
              /\ \A k \in 1..(n - 1) : events[2 * k] = Sleep

\* C9: a batch of at least two documents has ended whose first call failed
\* and whose second succeeded.
C9_Witness ==
    /\ pc = "summarized"
    /\ Len(documents) >= 2
    /\ Len(failed_summaries) >= 1
    /\ Len(summaries) >= 1
    /\ events[2] = Sleep
    /\ events[Len(events)][1] = "call"

\* the results summarizeMultipleDocuments has produced so far
AllResults == Range(summaries) \cup Range(failed_summaries)

\* C15 as claimed: the compression ratio of every accepted result is
\* original_length / summary_length exactly (ratios are kept in tenths), and
\* a result with a summary of length zero has ratio 0.
C15_RatioIsExactQuotient ==
    pc \in {"summarize", "summarized"} =>
        /\ \A r \in Range(summaries) :
              r.compression_ratio * r.summary_length = 10 * r.original_length
        /\ \A r \in AllResults :
              ("summary_length" \in DOMAIN r /\ r.summary_length = 0)
                  => r.compression_ratio = 0

\* C15: the compression ratio of every accepted result is within half a
\* tenth of original_length / summary_length, and a result with a summary of
\* length zero has ratio 0.
C15_RatioIsRoundedQuotient ==
    pc \in {"summarize", "summarized"} =>
        /\ \A r \in Range(summaries) :
              LET d == r.compression_ratio * r.summary_length
                           - 10 * r.original_length
              IN  /\ r.summary_length > 0
                  /\ 2 * d <= r.summary_length
                  /\ -2 * d <= r.summary_length
        /\ \A r \in AllResults :
              ("summary_length" \in DOMAIN r /\ r.summary_length = 0)
                  => r.compression_ratio = 0

\* C15: a summary was accepted whose ratio is not a whole number of tenths
\* (2 characters summarized in 3), and a summary of length zero was turned
\* down.
C15_Witness ==
    /\ \E r \in Range(summaries) :
          (10 * r.original_length) % r.summary_length # 0
    /\ \E r \in Range(failed_summaries) :
          "summary_length" \in DOMAIN r /\ r.summary_length = 0

(***************************************************************************)
(* Properties of persistence.                                              *)
(***************************************************************************)
MutableColumns == {"meeting_title", "meeting_date", "summary", "original_url"}

\* C1: whatever upserts were sent, succeeding or failing, the table holds at
\* most one row for each document_id.
C1_OneRowPerDocumentId ==
    \A i, j \in DOMAIN store :
        store[i].document_id = store[j].document_id => i = j

\* C1: an upsert for a document_id that already had a row has succeeded, and
\* the table still holds one row for it.
C1_Witness ==
    /\ last_write # None
    /\ last_hit
    /\ Cardinality(RowsOf(store, last_write.document_id)) = 1

\* C2: once an upsert for a document_id that already had a row has
\* succeeded, the row's title, date, summary and source URL are those of
\* that upsert: a column the second record does not carry is not left over
\* from the first.
C2_SecondWriteReplacesFields ==
    (last_write # None /\ last_hit) =>
        \A i \in RowsOf(store, last_write.document_id) :
            \A c \in MutableColumns :
                /\ (c \in DOMAIN store[i]) = (c \in DOMAIN last_write)
                /\ c \in DOMAIN last_write => store[i][c] = last_write[c]

\* C10: when saveMultipleSummaries returns it has sent one upsert for every
\* summary, in list order, whatever failed, and returns the number of
\* upserts that succeeded.
C10_BatchCountsSuccesses ==
    /\ pc = "save" =>
          /\ Len(attempts) = idx - 1
          /\ idx <= Len(summaries) + 1
    /\ pc = "saved" =>
          /\ Len(attempts) = Len(summaries)
          /\ \A i \in DOMAIN attempts :
                attempts[i].document_id = summaries[i].document_id
          /\ returned = Cardinality({i \in DOMAIN attempts : attempts[i].ok})

\* C10: a call has returned in which a failed write was followed by a
\* successful one.
C10_Witness ==
    /\ pc = "saved"
    /\ \E i, j \in DOMAIN attempts :
          i < j /\ ~attempts[i].ok /\ attempts[j].ok
    /\ returned >= 1

(***************************************************************************)
(* Properties of two concurrent runs.                                      *)
(***************************************************************************)
\* the rows the upserts of process r sent
SentBy(r) == {w.db_record : w \in {v \in writes : v.run = r}}

\* C21: however the upserts of two runs interleave, the table holds at most
\* one row for an id, every row is the row one upsert sent, column for
\* column (never columns of two upserts), and every id an upsert wrote
\* still has its row.
C21_RowsComeFromOneUpsert ==
    /\ \A i, j \in DOMAIN store :
          store[i].document_id = store[j].document_id => i = j
    /\ \A i \in DOMAIN store :
          \E w \in writes : store[i] = w.db_record
    /\ \A w \in writes : RowsOf(store, w.db_record.document_id) # {}

\* C21: the parts about the number of rows and about removal alone.
C21_OneRowNoneRemoved ==
    /\ \A i, j \in DOMAIN store :
          store[i].document_id = store[j].document_id => i = j
    /\ \A w \in writes : RowsOf(store, w.db_record.document_id) # {}

(***************************************************************************)
(* Properties of what a run stores.                                        *)
(***************************************************************************)
\* the columns for the document id, title, date, summary and source URL
PipelineColumns ==
    {"document_id", "meeting_title", "meeting_date", "summary", "original_url"}

\* C22: a row a pipeline run has sent to the store has no column for the
\* document text, and no column besides the document id, title, date,
\* summary and source URL.
C22_NoDocumentTextStored ==
    (caller # "none" /\ last_write # None) =>
        /\ "raw_text" \notin DOMAIN last_write
        /\ DOMAIN last_write \subseteq PipelineColumns

(***************************************************************************)
(* Properties of the existence check.                                      *)
(***************************************************************************)
\* C23: checkIfDocumentExists answers True exactly when the store was read
\* and holds a row for the id; when the read fails it answers False, also
\* for an id that has a row.
C23_ExistsOnlyWhenReadAndPresent ==
    exists_call # None =>
        /\ exists_call.answer \in BOOLEAN
        /\ exists_call.answer =
              (exists_call.ok /\ RowsOf(store, exists_call.document_id) # {})

\* C23: the read failed for an id that has a row, and the answer was False.
C23_Witness ==
    /\ exists_call # None
    /\ ~exists_call.ok
    /\ RowsOf(store, exists_call.document_id) # {}
    /\ exists_call.answer = FALSE

====
